---------------------------- MODULE Spec2Model ----------------------------
(***************************************************************************)
(* Model of the football-matches server (src/server.js): the upstream      *)
(* fetcher fetchMatches, the node-cache instance in front of it, the two   *)
(* route handlers that use them, /health, and the shutdown of the process. *)
(*                                                                         *)
(* Specifications: Spec (the server in UTC), SpecFull (any time zone, with *)
(* /health), SpecEmpty (an upstream sending no matches array), SpecLive    *)
(* (timers fire, the upstream need not answer), SpecShutdown (signals,     *)
(* server.close, force timer) and SpecFetch (one call of fetchMatches).    *)
(*                                                                         *)
(* Time is counted in seconds since the epoch of the model; a calendar     *)
(* date is the number of its day.  JavaScript objects are records whose    *)
(* DOMAIN is the set of the object's own fields, so "the result carries    *)
(* an error field" is "error" \in DOMAIN r.                                *)
(***************************************************************************)
EXTENDS Integers, Sequences, FiniteSets, Bags, TLC

VARIABLES
    now,        \* the wall clock read by new Date() / Date.now()
    token,      \* process.env.FOOTBALL_API_TOKEN is set
    cache,      \* node-cache store: key -> [v |-> value, t |-> expiry instant]
    inflight,   \* bag of route handlers suspended on the upstream call
    last,       \* what the step just taken did (lookup, response, store)
    ticks,      \* number of clock advances so far
    tz,         \* the time zone the process runs in (local time of Date)
    proc,       \* the process and its http server: listening, connections,
                \* close callbacks, force timers, exit
    fcall,      \* arguments and environment of a stand-alone fetchMatches call
    fret        \* what that call produced

vars == <<now, token, cache, inflight, last, ticks, tz, proc, fcall, fret>>

serverVars == <<now, token, cache, inflight, last, ticks, tz, proc>>

fetchVars == <<fcall, fret>>

-----------------------------------------------------------------------------
(* Bounds of the model *)

\* longest upstream matches array enumerated for fetchMatches
MaxLen == 2

\* most route handlers suspended on the upstream at once
MaxInflight == 2

\* most clock advances in one behaviour
MaxTicks == 2

\* calendar dates offered to a stand-alone fetchMatches call: 0..MaxDay
MaxDay == 1

\* most connections open at once while the process shuts down
MaxConns == 2

\* most signals (SIGINT, SIGTERM) sent to the process
MaxSignals == 2

-----------------------------------------------------------------------------
(* Program constants *)

\* cache.set(cacheKey, data, 1800)
TtlToday == 1800

\* cache.set(cacheKey, data, 300)
TtlUpcoming == 300

\* new NodeCache({ checkperiod: 120 })
CheckPeriod == 120

\* fetch(url, { timeout: 10000 }), in seconds
FetchTimeout == 10

\* to.setDate(to.getDate() + 5)
DefaultRangeDays == 5

\* d.setDate(d.getDate() + offset) moves by whole days of this many seconds
DaySeconds == 86400

GenericError == "Service temporarily unavailable"

RetainedStatuses == {"SCHEDULED", "LIVE", "IN_PLAY", "PAUSED"}

-----------------------------------------------------------------------------
(* JavaScript values *)

JsNull == [k |-> "null"]

\* a string that new Date() parses as day n
IsoDate(n) == [k |-> "iso", day |-> n]

\* a string that new Date() does not parse
JunkDate == [k |-> "str", text |-> "not-a-date"]

EmptyString == [k |-> "str", text |-> ""]

\* if (dateFrom), if (dateTo), !dateTo
Truthy(d) == d # JsNull /\ d # EmptyString

\* isNaN(new Date(d))
IsNaNDate(d) == d.k # "iso"

\* if (data.error), on a fetchMatches result
HasError(r) == "error" \in DOMAIN r /\ r.error # ""

\* { ...obj, f1: v1, ... }: the fields of extra override those of obj
Spread(obj, extra) == extra @@ obj

-----------------------------------------------------------------------------
(* Dates: local time and UTC *)

\* A time zone is its offset from UTC in seconds (base), changed by shift
\* from the instant dstAt on (a daylight-saving transition); shift = 0 is a
\* zone without transition.
UtcZone == [base |-> 0, dstAt |-> 0, shift |-> 0]

\* UTC+1, clocks set forward one hour at 01:00 UTC of day 1
EastSpring == [base |-> 3600, dstAt |-> DaySeconds + 3600, shift |-> 3600]

\* UTC-5, clocks set forward one hour at 07:00 UTC of day 2
WestSpring == [base |-> -18000, dstAt |-> 2 * DaySeconds + 25200, shift |-> 3600]

\* UTC+2, clocks set back one hour at 01:00 UTC of day 1
EastFall == [base |-> 7200, dstAt |-> DaySeconds + 3600, shift |-> -3600]

Zones == {UtcZone, EastSpring, WestSpring, EastFall}

\* local time minus UTC at instant u
ZoneOffset(zone, u) ==
    zone.base + (IF u >= zone.dstAt THEN zone.shift ELSE 0)

\* the instant whose local time is w; a local time that the transition skips
\* is read with the offset before it, one that occurs twice is the earlier
LocalToUtc(zone, w) ==
    LET u1 == w - zone.base
        u2 == w - zone.base - zone.shift
    IN  IF u1 < zone.dstAt THEN u1
        ELSE IF u2 >= zone.dstAt THEN u2
        ELSE u1

\* d.setDate(d.getDate() + n) on the Date of instant u: the same local time
\* of day, n local calendar days on
SetDatePlus(zone, u, n) ==
    LocalToUtc(zone, u + ZoneOffset(zone, u) + n * DaySeconds)

\* d.toISOString().split('T')[0]: the UTC calendar date of instant u
IsoDay(u) == u \div DaySeconds

\* new Date('YYYY-MM-DD'): midnight UTC of the date
DateOf(d) == d.day * DaySeconds


-----------------------------------------------------------------------------
(* fetchMatches *)

Throw(message) == [threw |-> TRUE, message |-> message]

\* the parameters built with dateTo not validated
BuildParamsToUnchecked(dateFrom, dateTo, zone) ==
    IF Truthy(dateFrom) /\ IsNaNDate(dateFrom)
    THEN Throw("Invalid dateFrom format")
    ELSE LET to == IF Truthy(dateFrom) /\ ~Truthy(dateTo)
                   THEN IsoDate(IsoDay(SetDatePlus(zone, DateOf(dateFrom),
                                                   DefaultRangeDays)))
                   ELSE dateTo
         IN  [threw    |-> FALSE,
              dateFrom |-> IF Truthy(dateFrom) THEN dateFrom ELSE JsNull,
              dateTo   |-> IF Truthy(to) THEN to ELSE JsNull]

\* The query parameters of the upstream request, or what is thrown while they
\* are built.  An absent parameter is JsNull.
BuildParams(dateFrom, dateTo, zone) ==
    IF Truthy(dateFrom) /\ IsNaNDate(dateFrom)
    THEN Throw("Invalid dateFrom format")
    ELSE LET to == IF Truthy(dateFrom) /\ ~Truthy(dateTo)
                   THEN IsoDate(IsoDay(SetDatePlus(zone, DateOf(dateFrom),
                                                   DefaultRangeDays)))
                   ELSE dateTo
         IN  IF Truthy(to) /\ IsNaNDate(to)
             THEN Throw("Invalid dateTo format")
             ELSE [threw    |-> FALSE,
                   dateFrom |-> IF Truthy(dateFrom) THEN dateFrom ELSE JsNull,
                   dateTo   |-> IF Truthy(to) THEN to ELSE JsNull]

\* a filter that keeps FINISHED matches as well
FilterMatchesFinishedToo(matches) ==
    SelectSeq(matches, LAMBDA m : m.status \in RetainedStatuses \cup {"FINISHED"})

\* matches.filter(m => [...].includes(m.status))
FilterMatches(matches) ==
    SelectSeq(matches, LAMBDA m : m.status \in RetainedStatuses)

\* count: matches.length
ResultCountsAll(matches, filtered) ==
    [matches        |-> filtered,
     count          |-> Len(matches),
     totalAvailable |-> Len(matches)]

\* return { matches: filtered, count: filtered.length,
\*          totalAvailable: matches.length }
Result(matches, filtered) ==
    [matches        |-> filtered,
     count          |-> Len(filtered),
     totalAvailable |-> Len(matches)]

\* What the code after the upstream call does with the call's outcome up:
\*   [k |-> "reject", message]                      fetch() rejects
\*   [k |-> "response", ok, status, textOk, text, json]
\* where json is [k |-> "invalid"] (res.json() rejects), [k |-> "null"], or
\* [k |-> "object", matches |-> m] with m absent, not an array, or an array.
Receive(up) ==
    IF up.k = "reject" THEN Throw(up.message)
    ELSE IF ~up.ok
    THEN Throw("API Error " \o up.status \o ": "
                 \o (IF up.textOk THEN up.text ELSE "Unknown error"))
    ELSE IF up.json.k = "invalid" THEN Throw("invalid json response body")
    ELSE IF up.json.k = "null"
    THEN Throw("Cannot read properties of null (reading 'matches')")
    ELSE LET matches == IF up.json.matches.k = "array"
                        THEN up.json.matches.items
                        ELSE <<>>
         IN  IF \E i \in 1..Len(matches) : matches[i] = JsNull
             THEN Throw("Cannot read properties of null (reading 'status')")
             ELSE [threw |-> FALSE,
                   value |-> Result(matches, FilterMatches(matches))]

\* if (!API_TOKEN) return {...}
TokenMissing ==
    [matches |-> <<>>, count |-> 0, error |-> "API token missing"]

\* a catch block that throws the error on
CatchRethrow(message, t) == [kind |-> "throw", message |-> message]

\* catch (err) { return {...} }
Catch(message, t) ==
    [kind  |-> "return",
     value |-> [matches |-> <<>>, count |-> 0, error |-> message,
                timestamp |-> t]]

\* The call reaches the upstream request: the token is set and the
\* parameters were built.
ReachesUpstream(tok, dateFrom, dateTo, zone) ==
    tok /\ ~BuildParams(dateFrom, dateTo, zone).threw

\* the query of the upstream request: url.search = new URLSearchParams(params)
SentParams(dateFrom, dateTo, zone) ==
    LET p == BuildParams(dateFrom, dateTo, zone)
    IN  [dateFrom |-> p.dateFrom, dateTo |-> p.dateTo]

\* no upstream request was sent
NoParams == [dateFrom |-> JsNull, dateTo |-> JsNull, none |-> TRUE]

\* fetchMatches(dateFrom, dateTo) with the token set or not, the upstream
\* answering up, the clock at t.  kind is "return" (the promise resolves with
\* value) or "throw" (it rejects); calls counts the upstream requests issued
\* and sent is the query of the request issued.  The process runs in zone.
fetchMatches(tok, dateFrom, dateTo, up, t, zone) ==
    IF ~tok
    THEN [kind |-> "return", value |-> TokenMissing, calls |-> 0,
          sent |-> NoParams]
    ELSE LET p == BuildParams(dateFrom, dateTo, zone)
         IN  IF p.threw
             THEN Catch(p.message, t) @@ [calls |-> 0, sent |-> NoParams]
             ELSE LET r    == Receive(up)
                      sent == SentParams(dateFrom, dateTo, zone)
                  IN  IF r.threw
                      THEN Catch(r.message, t) @@ [calls |-> 1, sent |-> sent]
                      ELSE [kind |-> "return", value |-> r.value, calls |-> 1,
                            sent |-> sent]

-----------------------------------------------------------------------------
(* Inputs enumerated for fetchMatches *)

ItemKinds == RetainedStatuses \cup {"FINISHED", "POSTPONED", "null"}

\* the upstream array whose i-th element has the i-th kind: a match with that
\* status and id i, or null
Items(kinds) ==
    [i \in 1..Len(kinds) |->
        IF kinds[i] = "null" THEN JsNull ELSE [id |-> i, status |-> kinds[i]]]

KindSeqs(n) == UNION {[1..m -> ItemKinds] : m \in 0..n}

OkResponse(json) ==
    [k |-> "response", ok |-> TRUE, status |-> "200", textOk |-> TRUE,
     text |-> "", json |-> json]

ErrResponse(status, textOk, text) ==
    [k |-> "response", ok |-> FALSE, status |-> status, textOk |-> textOk,
     text |-> text, json |-> [k |-> "invalid"]]

NetworkError == [k |-> "reject", message |-> "request failed, reason: ECONNREFUSED"]

TimeoutError == [k |-> "reject", message |-> "network timeout"]

ArrayBody(kinds) ==
    OkResponse([k |-> "object", matches |-> [k |-> "array", items |-> Items(kinds)]])

Upstreams ==
    {NetworkError, TimeoutError,
     ErrResponse("500", TRUE, "server error"), ErrResponse("429", FALSE, ""),
     OkResponse([k |-> "invalid"]), OkResponse([k |-> "null"]),
     OkResponse([k |-> "object", matches |-> [k |-> "absent"]]),
     OkResponse([k |-> "object", matches |-> [k |-> "string"]])}
    \cup {ArrayBody(kinds) : kinds \in KindSeqs(MaxLen)}

DateArgs == {JsNull, EmptyString, JunkDate} \cup {IsoDate(n) : n \in 0..MaxDay}

NotCalled == [kind |-> "none"]

FetchInputs == [tok : BOOLEAN, dateFrom : DateArgs, dateTo : DateArgs, up : Upstreams]

-----------------------------------------------------------------------------
(* The cache: new NodeCache({ stdTTL: 600, checkperiod: 120 }) *)

EmptyCache == <<>>

\* the expiry instant in seconds compared with a clock in milliseconds
ExpiredUnitMixup(e, t) == e.t # 0 /\ e.t * 1000 < t

\* node-cache keeps the expiry instant t = Date.now() + ttl of each entry and
\* holds an entry expired once t < Date.now()
Expired(e, t) == e.t # 0 /\ e.t < t

Without(c, key) == [x \in DOMAIN c \ {key} |-> c[x]]

\* a read that renews the expiry instant of the entry it serves
cacheGetSliding(c, key, t) ==
    IF key \notin DOMAIN c
    THEN [hit |-> FALSE, store |-> c]
    ELSE IF Expired(c[key], t)
    THEN [hit |-> FALSE, store |-> Without(c, key)]
    ELSE [hit |-> TRUE, value |-> c[key].v,
          store |-> [c EXCEPT ![key].t = t + TtlUpcoming]]

\* cache.get(key) at instant t: the value, or undefined (hit = FALSE) when the
\* key is absent or its entry expired; an expired entry is deleted by the read
cacheGet(c, key, t) ==
    IF key \notin DOMAIN c
    THEN [hit |-> FALSE, store |-> c]
    ELSE IF Expired(c[key], t)
    THEN [hit |-> FALSE, store |-> Without(c, key)]
    ELSE [hit |-> TRUE, value |-> c[key].v, store |-> c]

\* cache.set(key, value, ttl) at instant t
cacheSet(c, key, value, ttl, t) ==
    (key :> [v |-> value, t |-> t + ttl]) @@ c

\* the periodic check at instant t deletes the expired entries
checkData(c, t) ==
    [x \in {y \in DOMAIN c : ~Expired(c[y], t)} |-> c[x]]

\* The check's timer is armed at construction (at instant t0) and again at
\* the end of each check, checkperiod seconds ahead.  The cache c as the
\* clock goes from instant a to instant b with no handler running: the checks
\* that fall due in (a, b] have run, each at its instant.
Elapse(c, t0, a, b) ==
    LET due == {t \in (a + 1)..b : (t - t0) % CheckPeriod = 0}
    IN  IF due = {} THEN c
        ELSE checkData(c, CHOOSE t \in due : \A u \in due : u <= t)

-----------------------------------------------------------------------------
(* The routes *)

Routes == {"today", "upcoming"}

\* toISOString() cut after the hour: the date and the hour, counted in hours
getDateStringHour(offset, t, zone) == SetDatePlus(zone, t, offset) \div 3600

\* getDateString(offset) with the clock at t, in zone: the UTC date of the
\* instant offset local days from t
getDateString(offset, t, zone) == IsoDay(SetDatePlus(zone, t, offset))

KeyPrefix(route) ==
    IF route = "today" THEN "matches_today_" ELSE "matches_upcoming_from_"

\* `matches_today_${today}`, `matches_upcoming_from_${tomorrow}`: the string
\* made of a route's prefix and a date, kept as the pair of its two parts
CacheKey(route, date) == [prefix |-> KeyPrefix(route), date |-> date]

NoKey == [prefix |-> "", date |-> 0]

\* cache.set without its ttl argument: the cache's stdTTL
RouteTtlStd(route) == 600

\* the ttl each route passes to cache.set
RouteTtl(route) == IF route = "today" THEN TtlToday ELSE TtlUpcoming

\* the upcoming handler calling fetchMatches(today, tomorrow) as the today
\* handler does
DeriveUpcomingAsToday(route, t1, t2, zone) ==
    [route    |-> route,
     key      |-> CacheKey(route, getDateString(IF route = "today" THEN 0 ELSE 1,
                                                t1, zone)),
     dateFrom |-> IsoDate(getDateString(0, t1, zone)),
     dateTo   |-> IsoDate(getDateString(1, t2, zone))]

\* What a handler derives from the clock: t1 and t2 are the instants of the
\* first and the second new Date() of the today handler (today, tomorrow);
\* the upcoming handler reads the clock once (tomorrow).
Derive(route, t1, t2, zone) ==
    IF route = "today"
    THEN [route    |-> route,
          key      |-> CacheKey(route, getDateString(0, t1, zone)),
          dateFrom |-> IsoDate(getDateString(0, t1, zone)),
          dateTo   |-> IsoDate(getDateString(1, t2, zone))]
    ELSE [route    |-> route,
          key      |-> CacheKey(route, getDateString(1, t1, zone)),
          dateFrom |-> IsoDate(getDateString(1, t1, zone)),
          dateTo   |-> JsNull]

NoValue == [k |-> "none"]

\* What a step did: the handler's route and key, whether its lookup deleted an
\* expired entry, what fetchMatches returned to it, the upstream requests it
\* sent, and the response.
NoEvent ==
    [op |-> "none", route |-> "", key |-> NoKey, evicted |-> FALSE,
     fetched |-> NoValue, calls |-> 0, status |-> 0, body |-> NoValue]

\* res.json(cached): the stored value served as it is
HitEventBare(req, value, t) ==
    [op |-> "hit", route |-> req.route, key |-> req.key, evicted |-> FALSE,
     fetched |-> NoValue, calls |-> 0, status |-> 200, body |-> value]

\* res.json({ ...cached, cached: true, cacheTime: ... })
HitEvent(req, value, t) ==
    [op |-> "hit", route |-> req.route, key |-> req.key, evicted |-> FALSE,
     fetched |-> NoValue, calls |-> 0, status |-> 200,
     body |-> Spread(value, [cached |-> TRUE, cacheTime |-> t])]

\* res.status(503).json(data)
ErrorBodyLeaky(data) == data

\* res.status(503).json({ ...data, error: 'Service temporarily unavailable' })
ErrorBody(data) == Spread(data, [error |-> GenericError])

\* the handler without its if (data.error) return
StoreAlways(data) == TRUE

\* a handler that does not store a result without matches
StoreNonEmpty(data) == ~HasError(data) /\ data.count > 0

\* if (data.error) return ...; cache.set(cacheKey, data, ttl)
StoreAllowed(data) == ~HasError(data)

\* The handler from the return of fetchMatches on: out is what fetchMatches
\* produced, c the cache and t the clock at that moment.  Gives the cache
\* afterwards and what the step did.
AfterFetch(req, out, c, t) ==
    IF out.kind = "throw"
    THEN [store |-> c,
          ev    |-> [op |-> "rejected", route |-> req.route, key |-> req.key,
                     evicted |-> req.evicted, fetched |-> NoValue, calls |-> out.calls, status |-> 0,
                     body |-> NoValue]]
    ELSE IF ~StoreAllowed(out.value)
    THEN [store |-> c,
          ev    |-> [op |-> "failed", route |-> req.route, key |-> req.key,
                     evicted |-> req.evicted, fetched |-> out.value, calls |-> out.calls,
                     status |-> 503, body |-> ErrorBody(out.value)]]
    ELSE [store |-> cacheSet(c, req.key, out.value, RouteTtl(req.route), t),
          ev    |-> [op |-> "stored", route |-> req.route, key |-> req.key,
                     evicted |-> req.evicted, fetched |-> out.value, calls |-> out.calls,
                     status |-> 200,
                     body |-> Spread(out.value,
                                     [cached |-> FALSE, fetchTime |-> t])]]

\* a handler that joins the upstream call already under way for its key
IssueCallSingleFlight(fl, req, t) ==
    IF \E q \in BagToSet(fl) : q.key = req.key
    THEN fl
    ELSE fl (+) SetToBag({req @@ [issuedAt |-> t]})

\* a handler that sends its upstream request twice
IssueCallTwice(fl, req, t) ==
    fl (+) SetToBag({req @@ [issuedAt |-> t]})
       (+) SetToBag({req @@ [issuedAt |-> t]})

\* const res = await fetch(url, ...): the handler req, at instant t, joins the
\* handlers fl that wait for the upstream
IssueCall(fl, req, t) == fl (+) SetToBag({req @@ [issuedAt |-> t]})

\* an upstream call made with no timeout
TimeoutNever(q, t) == FALSE

\* fetch(url, { ..., timeout: 10000 }): at instant t the timeout of the
\* upstream call of q has run out
TimeoutDue(q, t) == t >= q.issuedAt + FetchTimeout

\* the upstream outcomes offered to the route handlers
ServerUpstreams ==
    {TimeoutError, ErrResponse("500", TRUE, "server error"),
     ArrayBody(<<"SCHEDULED", "FINISHED">>)}

\* the clock advances by one of these
TickSteps == {FetchTimeout, TtlUpcoming, TtlToday}

StartTime == DaySeconds - 1

\* the time zones the server is run in
ServerZones == {UtcZone, EastSpring}

-----------------------------------------------------------------------------
(* The process and its http server *)

\* setTimeout(() => { process.exit(1) }, 10000), in seconds
ForceDelay == 10

\* The process after app.listen: the server listens or not (listen failed
\* with an error other than EADDRINUSE), has conns open connections, cbs the
\* callbacks waiting for its 'close' event ("ok": called without error,
\* "err": called with ERR_SERVER_NOT_RUNNING), timers the instants of the
\* force timers; signals counts the signals received, the first at since;
\* flushes counts cache.flushAll(); st, code and how tell the exit.
ProcUp(listening) ==
    [st |-> "up", code |-> 0, how |-> "", listening |-> listening,
     conns |-> 0, cbs |-> <<>>, timers |-> {}, flushes |-> 0, signals |-> 0,
     since |-> 0]

\* process.exit(code)
Exit(p, code, how) == [p EXCEPT !.st = "exited", !.code = code, !.how = how]

\* a callback that exits before it flushes
CloseCallbackExitFirst(err, p, c) ==
    IF err
    THEN [proc |-> Exit(p, 1, "closeError"), store |-> c]
    ELSE [proc |-> Exit(p, 0, "closed"), store |-> c]

\* err => { if (err) { process.exit(1) } cache.flushAll(); process.exit(0) }
\* run with the process p and the cache c
CloseCallback(err, p, c) ==
    IF err
    THEN [proc |-> Exit(p, 1, "closeError"), store |-> c]
    ELSE [proc  |-> Exit([p EXCEPT !.flushes = @ + 1], 0, "closed"),
          store |-> EmptyCache]

\* the server has stopped listening and its last connection has ended
Drained(p) == ~p.listening /\ p.conns = 0

\* The 'close' event of a drained server: the callbacks registered by
\* server.close run in their order, and the first one exits the process.
EmitClose(p, c) ==
    IF Drained(p) /\ p.cbs # <<>>
    THEN CloseCallback(Head(p.cbs) = "err", p, c)
    ELSE [proc |-> p, store |-> c]

\* a shutdown that arms no force timer
ArmNoTimer(timers, t) == timers

\* setTimeout(..., 10000) at instant t
ArmTimer(timers, t) == timers \cup {t + ForceDelay}

\* server.close(cb) and setTimeout(...) of shutdown(signal), at instant t
Shutdown(p, t) ==
    [p EXCEPT !.signals = @ + 1,
              !.since = IF p.signals = 0 THEN t ELSE @,
              !.cbs = Append(@, IF p.listening THEN "ok" ELSE "err"),
              !.listening = FALSE,
              !.timers = ArmTimer(@, t)]

-----------------------------------------------------------------------------
(* The server *)

Init ==
    /\ now = StartTime
    /\ token \in BOOLEAN
    /\ cache = EmptyCache
    /\ inflight = EmptyBag
    /\ last = NoEvent
    /\ ticks = 0
    /\ tz = UtcZone
    /\ proc = ProcUp(TRUE)
    /\ fcall = NotCalled
    /\ fret = NotCalled

\* GET /api/matches/today and GET /api/matches/upcoming, from the arrival of
\* the request to its response or to the await of the upstream call.  skew is
\* the time that passes between the handler's two readings of the clock (it
\* shows only when midnight falls between them); a periodic check of the
\* cache that falls due meanwhile runs once the handler has yielded.
Request(route, skew) ==
    /\ skew = 0 \/ /\ route = "today"
                   /\ ticks < MaxTicks
                   /\ getDateString(0, now + skew, tz) # getDateString(0, now, tz)
    /\ \A q \in BagToSet(inflight) : now + skew <= q.issuedAt + FetchTimeout
    /\ LET t   == now + skew
           drv == Derive(route, now, t, tz)
           got == cacheGet(cache, drv.key, t)
           req == drv @@ [sent    |-> SentParams(drv.dateFrom, drv.dateTo, tz),
                          evicted |-> got.store # cache]
       IN  /\ now' = t
           /\ ticks' = ticks + skew
           /\ IF got.hit
              THEN /\ cache' = Elapse(got.store, StartTime, now, t)
                   /\ last' = HitEvent(req, got.value, t)
                   /\ UNCHANGED inflight
              ELSE IF ReachesUpstream(token, req.dateFrom, req.dateTo, tz)
              THEN /\ BagCardinality(inflight) < MaxInflight
                   /\ cache' = Elapse(got.store, StartTime, now, t)
                   /\ inflight' = IssueCall(inflight, req, t)
                   /\ last' = [NoEvent EXCEPT !.op = "miss", !.route = route,
                                              !.key = req.key, !.calls = 1,
                                              !.evicted = req.evicted]
              ELSE LET out == fetchMatches(token, req.dateFrom, req.dateTo,
                                           NetworkError, t, tz)
                       fin == AfterFetch(req, out, got.store, t)
                   IN  /\ cache' = Elapse(fin.store, StartTime, now, t)
                       /\ last' = fin.ev
                       /\ UNCHANGED inflight
    /\ UNCHANGED <<token, tz, proc, fcall, fret>>

\* The upstream call of a suspended handler ends with outcome up and the
\* handler runs to its response.
Complete(q, up) ==
    /\ BagIn(q, inflight)
    /\ up = TimeoutError => TimeoutDue(q, now)
    /\ LET out == fetchMatches(token, q.dateFrom, q.dateTo, up, now, tz)
           fin == AfterFetch(q, out, cache, now)
       IN  /\ cache' = fin.store
           /\ last' = fin.ev
    /\ inflight' = inflight (-) SetToBag({q})
    /\ UNCHANGED <<now, token, ticks, tz, proc, fcall, fret>>

\* Time passes, and node-cache's periodic checks with it; an upstream call
\* does not outlast its timeout.
Tick(d) ==
    /\ ticks < MaxTicks
    /\ \A q \in BagToSet(inflight) : now + d <= q.issuedAt + FetchTimeout
    /\ now' = now + d
    /\ ticks' = ticks + 1
    /\ cache' = Elapse(cache, StartTime, now, now + d)
    /\ last' = NoEvent
    /\ UNCHANGED <<token, inflight, tz, proc, fcall, fret>>

\* GET /health: res.status(200).json({ status: 'UP', timestamp: ... })
Health ==
    /\ last' = [NoEvent EXCEPT !.op = "health", !.route = "health",
                               !.status = 200,
                               !.body = [status |-> "UP", timestamp |-> now]]
    /\ UNCHANGED <<now, token, cache, inflight, ticks, tz, proc, fcall, fret>>

Next ==
    \/ \E route \in Routes, skew \in {0, 1} : Request(route, skew)
    \/ \E q \in BagToSet(inflight), up \in ServerUpstreams : Complete(q, up)
    \/ \E d \in TickSteps : Tick(d)

\* the server running in UTC, its two routes requested
Spec == Init /\ [][Next]_vars

\* the server in any of its time zones
InitFull ==
    /\ now = StartTime
    /\ token \in BOOLEAN
    /\ cache = EmptyCache
    /\ inflight = EmptyBag
    /\ last = NoEvent
    /\ ticks = 0
    /\ tz \in ServerZones
    /\ proc = ProcUp(TRUE)
    /\ fcall = NotCalled
    /\ fret = NotCalled

NextFull == Next \/ Health

\* the server in any of its time zones, /health requested as well
SpecFull == InitFull /\ [][NextFull]_vars

-----------------------------------------------------------------------------
(* The server in front of an upstream that sends no matches array *)

\* res.ok with a JSON body whose matches is absent or is not an array, beside
\* an upstream failure
EmptyBodyUpstreams ==
    {ErrResponse("500", TRUE, "server error"),
     OkResponse([k |-> "object", matches |-> [k |-> "absent"]]),
     OkResponse([k |-> "object", matches |-> [k |-> "string"]])}

NextEmpty ==
    \/ \E route \in Routes, skew \in {0, 1} : Request(route, skew)
    \/ \E q \in BagToSet(inflight), up \in EmptyBodyUpstreams : Complete(q, up)
    \/ \E d \in TickSteps : Tick(d)

SpecEmpty == Init /\ [][NextEmpty]_vars

-----------------------------------------------------------------------------
(* The server with an upstream that need not answer *)

\* what the upstream answers, if it answers
Answers == ServerUpstreams \ {TimeoutError}

\* The timeout of the oldest upstream call runs out, the clock having come
\* to that instant if it was not there: fetch rejects, fetchMatches returns
\* the error result and the handler answers.
Expire(q) ==
    /\ BagIn(q, inflight)
    /\ \A r \in BagToSet(inflight) : q.issuedAt <= r.issuedAt
    /\ LET t   == IF TimeoutDue(q, now) THEN now ELSE q.issuedAt + FetchTimeout
           out == fetchMatches(token, q.dateFrom, q.dateTo, TimeoutError, t, tz)
           fin == AfterFetch(q, out, Elapse(cache, StartTime, now, t), t)
       IN  /\ TimeoutDue(q, t)
           /\ now' = t
           /\ ticks' = ticks + (IF t > now THEN 1 ELSE 0)
           /\ cache' = fin.store
           /\ last' = fin.ev
    /\ inflight' = inflight (-) SetToBag({q})
    /\ UNCHANGED <<token, tz, proc, fcall, fret>>

\* every upstream call under way can still run to its timeout within the
\* clock advances of the model
Reserve == ticks + BagCardinality(inflight) <= MaxTicks

NextLive ==
    \/ \E route \in Routes, skew \in {0, 1} : Request(route, skew) /\ Reserve'
    \/ \E q \in BagToSet(inflight), up \in Answers : Complete(q, up)
    \/ \E q \in BagToSet(inflight) : Expire(q)
    \/ Tick(FetchTimeout) /\ Reserve'

\* Timers fire: a timeout that has been armed runs out.  The upstream is
\* under no obligation.
SpecLive ==
    /\ Init
    /\ [][NextLive]_vars
    /\ WF_vars(\E q \in BagToSet(inflight) : Expire(q))

-----------------------------------------------------------------------------
(* Shutdown *)

\* a cache holding the entry of one successful today request
OneEntryCache ==
    cacheSet(EmptyCache, CacheKey("today", getDateString(0, StartTime, UtcZone)),
             Result(<<>>, <<>>), TtlToday, StartTime)

InitShutdown ==
    /\ now = StartTime
    /\ token = TRUE
    /\ cache \in {EmptyCache, OneEntryCache}
    /\ inflight = EmptyBag
    /\ last = NoEvent
    /\ ticks = 0
    /\ tz = UtcZone
    /\ proc \in {ProcUp(listening) : listening \in BOOLEAN}
    /\ fcall = NotCalled
    /\ fret = NotCalled

\* a client connects to the listening server
ConnOpen ==
    /\ proc.st = "up"
    /\ proc.listening
    /\ proc.conns < MaxConns
    /\ proc' = [proc EXCEPT !.conns = @ + 1]
    /\ UNCHANGED <<now, token, cache, inflight, last, ticks, tz, fcall, fret>>

\* A connection ends; if it was the last one of a server that has stopped
\* listening, the server emits 'close'.
ConnClose ==
    /\ proc.st = "up"
    /\ proc.conns > 0
    /\ LET r == EmitClose([proc EXCEPT !.conns = @ - 1], cache)
       IN  /\ proc' = r.proc
           /\ cache' = r.store
    /\ UNCHANGED <<now, token, inflight, last, ticks, tz, fcall, fret>>

\* process.on('SIGINT' / 'SIGTERM', () => shutdown(...)): server.close
\* registers the callback and stops the server listening, the force timer is
\* armed, and a server with no connection emits 'close' at once.
Signal ==
    /\ proc.st = "up"
    /\ proc.signals < MaxSignals
    /\ LET r == EmitClose(Shutdown(proc, now), cache)
       IN  /\ proc' = r.proc
           /\ cache' = r.store
    /\ UNCHANGED <<now, token, inflight, last, ticks, tz, fcall, fret>>

\* The earliest force timer fires, the clock having come to its instant:
\* process.exit(1).
ForceExit ==
    /\ proc.st = "up"
    /\ proc.timers # {}
    /\ LET d == CHOOSE x \in proc.timers : \A y \in proc.timers : x <= y
       IN  /\ now' = IF now < d THEN d ELSE now
           /\ cache' = Elapse(cache, StartTime, now, now')
    /\ proc' = Exit(proc, 1, "forced")
    /\ UNCHANGED <<token, inflight, last, ticks, tz, fcall, fret>>

\* time passes in the running process, short of the force timers
TickShutdown(d) ==
    /\ proc.st = "up"
    /\ ticks < MaxTicks
    /\ \A x \in proc.timers : now + d < x
    /\ now' = now + d
    /\ ticks' = ticks + 1
    /\ cache' = Elapse(cache, StartTime, now, now + d)
    /\ UNCHANGED <<token, inflight, last, tz, proc, fcall, fret>>

NextShutdown ==
    \/ ConnOpen
    \/ ConnClose
    \/ Signal
    \/ ForceExit
    \/ \E d \in {1, FetchTimeout} : TickShutdown(d)

\* Timers fire.  Clients are under no obligation to end their connections.
SpecShutdown ==
    /\ InitShutdown
    /\ [][NextShutdown]_vars
    /\ WF_vars(ForceExit)

-----------------------------------------------------------------------------
(* fetchMatches on its own *)

InitFetch ==
    /\ now = StartTime
    /\ token = TRUE
    /\ cache = EmptyCache
    /\ inflight = EmptyBag
    /\ last = NoEvent
    /\ ticks = 0
    /\ tz \in Zones
    /\ proc = ProcUp(TRUE)
    /\ fcall \in FetchInputs
    /\ fret = NotCalled

FetchCall ==
    /\ fret = NotCalled
    /\ fret' = fetchMatches(fcall.tok, fcall.dateFrom, fcall.dateTo, fcall.up, now, tz)
    /\ UNCHANGED <<fcall, serverVars>>

NextFetch == FetchCall

SpecFetch == InitFetch /\ [][NextFetch]_vars

-----------------------------------------------------------------------------
(* Properties of the cache and the routes, under Spec *)

\* the instant up to which node-cache serves entry e
ServedUntil(e) == e.t

\* the entries of route that a read at the present instant would serve
LiveKeys(route) ==
    {k \in DOMAIN cache :
        k.prefix = KeyPrefix(route) /\ now <= ServedUntil(cache[k])}

\* C1: no cache entry ever holds a result that carries an error field, and a
\* request whose fetch failed writes nothing to the cache (so a later request
\* on its key is not served from the cache on its account: a hit never
\* carries an error).
C1_NoErrorCached ==
    [][/\ \A k \in DOMAIN cache' : "error" \notin DOMAIN cache'[k].v
       /\ last'.op = "failed" =>
             \A k \in DOMAIN cache' : k \in DOMAIN cache /\ cache'[k] = cache[k]
       /\ last'.op = "hit" => "error" \notin DOMAIN last'.body]_vars

\* a fetch that reached the upstream failed, and its key has no entry
C1_Witness ==
    /\ last.op = "failed"
    /\ last.calls = 1
    /\ last.key \notin DOMAIN cache

\* C2: a request whose key has an entry that is not past its expiry instant
\* is answered with exactly the stored fields plus cached = true (and the
\* cacheTime), with no call of fetchMatches; a request whose key has no entry,
\* or one past its expiry instant, is not a hit and (the token being set)
\* goes to the upstream.
C2_HitWithinTtl ==
    [][\A route \in Routes, skew \in {0, 1} :
         Request(route, skew) =>
            LET k    == Derive(route, now, now', tz).key
                live == k \in DOMAIN cache /\ now' <= ServedUntil(cache[k])
            IN  IF live
                THEN /\ last'.op = "hit"
                     /\ last'.key = k
                     /\ last'.status = 200
                     /\ last'.body =
                          [cached |-> TRUE, cacheTime |-> now'] @@ cache[k].v
                     /\ last'.calls = 0
                     /\ inflight' = inflight
                ELSE /\ last'.op # "hit"
                     /\ token => /\ last'.op = "miss"
                                 /\ last'.calls = 1
                                 /\ BagCardinality(inflight') =
                                       BagCardinality(inflight) + 1]_vars

\* a request after some time has passed was served the stored result
C2_Witness ==
    /\ last.op = "hit"
    /\ ticks >= 1
    /\ last.body.cached
    /\ last.body.count = 1

C4_OneLivePerRoute ==
    \A route \in Routes : Cardinality(LiveKeys(route)) <= 1

\* C4, amended: the live entries of a route are keyed by the date the route
\* derives at the present instant or by the date before it (an entry written
\* before a change of date stays live until its ttl runs out), so a route has
\* at most two live entries; every key is one of the two routes' keys.
C4_TwoLivePerRoute ==
    /\ \A k \in DOMAIN cache : \E route \in Routes : k.prefix = KeyPrefix(route)
    /\ \A route \in Routes :
         LET d == (now \div DaySeconds) + (IF route = "today" THEN 0 ELSE 1)
         IN  /\ \A k \in LiveKeys(route) : k.date \in {d - 1, d}
             /\ Cardinality(LiveKeys(route)) <= 2

\* a route has two live entries
C4_Witness ==
    \E route \in Routes : Cardinality(LiveKeys(route)) = 2

\* C5: a request that misses the cache goes to the upstream itself, however
\* many requests on the same key already wait there, and every handler whose
\* fetch succeeds writes the entry of its key.
C5_NoSingleFlight ==
    [][/\ \A route \in Routes, skew \in {0, 1} :
             LET k == Derive(route, now, now', tz).key
             IN  (/\ Request(route, skew)
                  /\ token
                  /\ ~(k \in DOMAIN cache /\ now' <= ServedUntil(cache[k])))
                 => /\ BagCardinality(inflight') = BagCardinality(inflight) + 1
                    /\ \E q \in BagToSet(inflight') :
                          /\ q.key = k
                          /\ q.issuedAt = now'
                          /\ CopiesIn(q, inflight') = CopiesIn(q, inflight) + 1
       /\ \A q \in BagToSet(inflight), up \in ServerUpstreams :
             (Complete(q, up) /\ up.k = "response" /\ up.ok)
                 => /\ q.key \in DOMAIN cache'
                    /\ cache'[q.key].v = last'.fetched
                    /\ cache'[q.key].t = now' + RouteTtl(q.route)]_vars

\* two handlers wait on upstream calls for one key
C5_Witness ==
    \E q \in BagToSet(inflight) :
        \/ CopiesIn(q, inflight) >= 2
        \/ \E r \in BagToSet(inflight) : r # q /\ r.key = q.key

\* C7: when fetchMatches returned a result carrying an error, the response has
\* status 503, its error field is the generic message, and its other fields
\* are those of the result: the internal message is not in it.
C7_ErrorSanitized ==
    "error" \in DOMAIN last.fetched =>
        /\ last.status = 503
        /\ last.fetched.error # GenericError
        /\ DOMAIN last.body = DOMAIN last.fetched
        /\ last.body.error = "Service temporarily unavailable"
        /\ \A f \in DOMAIN last.body \ {"error"} : last.body[f] = last.fetched[f]
        /\ last.body.matches = <<>>

\* the upstream answered 500 and the route answered 503
C7_Witness ==
    /\ last.op = "failed"
    /\ last.fetched.error = "API Error 500: server error"
    /\ last.status = 503

-----------------------------------------------------------------------------
(* Properties of fetchMatches, under SpecFetch *)

Called == fret # NotCalled

\* a date argument was supplied and does not parse
BadDate(d) == d = JunkDate

\* the upstream call of the present fetchMatches call fails: the request
\* rejects (network error, timeout), the status is not a success, the body is
\* no JSON, or it is JSON that the code cannot walk (null, a null element)
UpstreamFails ==
    \/ fcall.up.k = "reject"
    \/ ~fcall.up.ok
    \/ fcall.up.json.k \in {"invalid", "null"}
    \/ /\ fcall.up.json.matches.k = "array"
       /\ \E i \in DOMAIN fcall.up.json.matches.items :
             fcall.up.json.matches.items[i] = JsNull

\* the present call fails somewhere
CallFails ==
    \/ ~fcall.tok
    \/ BadDate(fcall.dateFrom)
    \/ BadDate(fcall.dateTo)
    \/ UpstreamFails

\* C6: fetchMatches never throws to its caller, and every failure in it gives
\* a result with matches = [], count = 0 and a non-empty error.
C6_FailuresBecomeResults ==
    Called =>
        /\ fret.kind = "return"
        /\ CallFails =>
              /\ fret.value.matches = <<>>
              /\ fret.value.count = 0
              /\ "error" \in DOMAIN fret.value
              /\ fret.value.error # ""

\* the error body of a 429 could not be read, and the call returned an error
C6_Witness ==
    /\ Called
    /\ fcall.up = ErrResponse("429", FALSE, "")
    /\ fret.value.error = "API Error 429: Unknown error"

\* C8: when the upstream answers with an array of matches, the matches
\* returned are exactly those of the array whose status is SCHEDULED, LIVE,
\* IN_PLAY or PAUSED, in the array's order (a match's id is its position in
\* the array), and totalAvailable is the length of the array.
C8_FilterExact ==
    (/\ Called
     /\ ~CallFails
     /\ fcall.up.json.matches.k = "array") =>
        LET ups  == fcall.up.json.matches.items
            outs == fret.value.matches
            keep == {"SCHEDULED", "LIVE", "IN_PLAY", "PAUSED"}
        IN  /\ \A i \in DOMAIN outs :
                  /\ outs[i].status \in keep
                  /\ outs[i].id \in DOMAIN ups
                  /\ ups[outs[i].id] = outs[i]
            /\ \A j \in DOMAIN ups :
                  ups[j].status \in keep => \E i \in DOMAIN outs : outs[i] = ups[j]
            /\ \A i, j \in DOMAIN outs : i < j => outs[i].id < outs[j].id
            /\ fret.value.totalAvailable = Len(ups)

\* of two upstream matches the call kept the second and dropped the first
C8_Witness ==
    /\ Called
    /\ ~CallFails
    /\ fcall.up.json.matches.k = "array"
    /\ Len(fcall.up.json.matches.items) = 2
    /\ fret.value.matches = <<[id |-> 2, status |-> "PAUSED"]>>
    /\ fret.value.totalAvailable = 2

\* C9: every result of fetchMatches has count = length(matches), and a result
\* that carries an error has no matches.
C9_CountIsLength ==
    (Called /\ fret.kind = "return") =>
        /\ fret.value.count = Len(fret.value.matches)
        /\ "error" \in DOMAIN fret.value => fret.value.matches = <<>>

\* a successful result with fewer matches than the upstream sent
C9_Witness ==
    /\ Called
    /\ "error" \notin DOMAIN fret.value
    /\ fret.value.count = 1
    /\ fret.value.totalAvailable = 2

\* C10: with no token the call returns {matches: [], count: 0,
\* error: 'API token missing'} and with a supplied dateFrom or dateTo that
\* does not parse it returns an error result with no matches; neither issues
\* the upstream request.  (A null or empty date is one not supplied.)
C10_NoCallOnBadInput ==
    Called =>
        /\ ~fcall.tok =>
              /\ fret.calls = 0
              /\ fret.kind = "return"
              /\ fret.value =
                    [matches |-> <<>>, count |-> 0, error |-> "API token missing"]
        /\ (fcall.tok /\ (BadDate(fcall.dateFrom) \/ BadDate(fcall.dateTo))) =>
              /\ fret.calls = 0
              /\ fret.kind = "return"
              /\ "error" \in DOMAIN fret.value
              /\ fret.value.error \in
                    {"Invalid dateFrom format", "Invalid dateTo format"}
              /\ fret.value.matches = <<>>

\* a valid dateFrom with a dateTo that does not parse: no upstream request
C10_Witness ==
    /\ Called
    /\ fcall.tok
    /\ fcall.dateFrom = IsoDate(0)
    /\ fcall.dateTo = JunkDate
    /\ fret.calls = 0
    /\ fret.value.error = "Invalid dateTo format"

-----------------------------------------------------------------------------
(* The date range sent to the upstream *)

\* C11: a call with a dateFrom that parses and no dateTo sends
\* dateTo = dateFrom + 5 calendar days, and a call with a dateTo sends that
\* dateTo unchanged.
C11_DefaultPlusFive ==
    (Called /\ fret.calls = 1) =>
        /\ (fcall.dateFrom.k = "iso" /\ ~Truthy(fcall.dateTo)) =>
              /\ fret.sent.dateFrom = fcall.dateFrom
              /\ fret.sent.dateTo = IsoDate(fcall.dateFrom.day + 5)
        /\ Truthy(fcall.dateTo) => fret.sent.dateTo = fcall.dateTo

\* the handlers of route that wait for the upstream
Waiting(route) == {q \in BagToSet(inflight) : q.route = route}

\* C12 as stated: the upcoming route asks the upstream for dateFrom = tomorrow
\* with no dateTo.
C12_OpenEnded ==
    \A q \in Waiting("upcoming") :
        /\ q.sent.dateFrom = IsoDate((q.issuedAt \div DaySeconds) + 1)
        /\ q.sent.dateTo = JsNull

\* C12, amended: the upcoming route asks the upstream for a bounded range.
\* dateFrom is the date of the request's cache key (the handler's tomorrow)
\* and dateTo is the default of fetchMatches: 5 days after dateFrom, or 4 when
\* the server's time zone sets its clocks forward in between; in a zone
\* without transition dateFrom is the day after the request's UTC date.
C12_UpcomingRange ==
    \A q \in Waiting("upcoming") :
        /\ q.sent.dateFrom = IsoDate(q.key.date)
        /\ q.sent.dateTo.k = "iso"
        /\ q.sent.dateTo.day - q.key.date \in {4, 5}
        /\ tz.shift = 0 =>
              /\ q.sent.dateTo.day = q.key.date + 5
              /\ q.key.date = (q.issuedAt \div DaySeconds) + 1

\* an upcoming request waits for the range [tomorrow, tomorrow + 5]
C12_Witness ==
    \E q \in Waiting("upcoming") :
        /\ q.issuedAt = StartTime
        /\ q.sent = [dateFrom |-> IsoDate(1), dateTo |-> IsoDate(6)]

\* C13: a today request that misses the cache with key matches_today_<D>
\* asks the upstream for dateFrom = D and dateTo = D + 1 day, also when
\* midnight passes while the request is handled.
C13_TodayRange ==
    \A q \in Waiting("today") :
        /\ q.sent.dateFrom = IsoDate(q.key.date)
        /\ q.sent.dateTo = IsoDate(q.key.date + 1)

-----------------------------------------------------------------------------
(* The response envelope *)

EnvelopeFields == {"cached", "cacheTime", "fetchTime"}

\* C14 as stated: every response of the two routes carries a boolean cached
\* and exactly one of cacheTime and fetchTime.
C14_EnvelopeAlways ==
    (last.route \in Routes /\ last.status # 0) =>
        /\ "cached" \in DOMAIN last.body
        /\ last.body.cached \in BOOLEAN
        /\ Cardinality(DOMAIN last.body \cap {"cacheTime", "fetchTime"}) = 1

\* C14, amended: every 200 response of the two routes carries a boolean
\* cached and exactly one of cacheTime and fetchTime: cached = true with
\* cacheTime when served from the cache, cached = false with fetchTime when
\* freshly fetched, the time being that of the response; a 503 response
\* carries none of the three fields.
C14_Envelope ==
    /\ last.status \in {0, 200, 503}
    /\ (last.route \in Routes /\ last.status = 200) =>
          /\ last.op \in {"hit", "stored"}
          /\ last.op = "hit" =>
                /\ DOMAIN last.body \cap EnvelopeFields = {"cached", "cacheTime"}
                /\ last.body.cached = TRUE
                /\ last.body.cacheTime = now
          /\ last.op = "stored" =>
                /\ DOMAIN last.body \cap EnvelopeFields = {"cached", "fetchTime"}
                /\ last.body.cached = FALSE
                /\ last.body.fetchTime = now
    /\ last.status = 503 =>
          /\ last.op = "failed"
          /\ DOMAIN last.body \cap EnvelopeFields = {}

\* the upcoming route served a stored result: it was stored without a
\* fetchTime and is served with a cacheTime
C14_Witness ==
    /\ last.op = "hit"
    /\ last.route = "upcoming"
    /\ "fetchTime" \notin DOMAIN cache[last.key].v
    /\ last.body.cacheTime = now

-----------------------------------------------------------------------------
(* Upstream calls per request *)

\* C16: a request sends at most one upstream request: none when it is served
\* from the cache or the token is missing, one otherwise; the handler whose
\* upstream call ended, in failure or not, sends no further one.
C16_AtMostOneCall ==
    [][LET sent == BagCardinality(inflight') - BagCardinality(inflight)
       IN  /\ last'.calls \in {0, 1}
           /\ last'.op \in {"hit", "health", "none"} =>
                 /\ last'.calls = 0
                 /\ inflight' = inflight
           /\ last'.op = "miss" =>
                 /\ token
                 /\ last'.calls = 1
                 /\ sent = 1
           /\ last'.op \in {"stored", "failed"} =>
                 /\ ~token => (last'.calls = 0 /\ inflight' = inflight)
                 /\ token => (last'.calls = 1 /\ sent = -1)
                 /\ \A r \in BagToSet(inflight') :
                       CopiesIn(r, inflight') <= CopiesIn(r, inflight)]_vars

\* an upstream call ran into its timeout and the handler answered without
\* another call
C16_Witness ==
    /\ last.op = "failed"
    /\ last.fetched.error = "network timeout"
    /\ last.calls = 1
    /\ inflight = EmptyBag

-----------------------------------------------------------------------------
(* What a request changes in the cache *)

\* every entry but that of key is in d as it is in c, and d has no other
SameBut(c, d, key) ==
    /\ DOMAIN d \ {key} = DOMAIN c \ {key}
    /\ \A x \in DOMAIN c \ {key} : d[x] = c[x]

\* C18 as stated: only a request whose fetch succeeded changes the cache, and
\* only the entry of its key; a hit, a request whose fetch failed and /health
\* leave every entry and its expiry instant as they were.
C18_OnlySuccessWrites ==
    [][/\ last'.op \in {"hit", "failed", "health"} =>
             /\ cache' = cache
             /\ ~last'.evicted
       /\ last'.op = "stored" => SameBut(cache, cache', last'.key)]_vars

\* C18, amended: a request changes at most the entry of its own key.  Its
\* lookup deletes that entry if it is past its expiry instant, whatever
\* becomes of the fetch, and changes nothing otherwise; the handler whose
\* fetch succeeded writes that entry; a hit, the handler whose fetch failed
\* (from its resumption on: it neither deletes nor overwrites an entry stored
\* meanwhile) and /health leave every entry and its expiry instant as they
\* were.
C18_Frame ==
    [][LET k == last'.key
           expired == k \in DOMAIN cache /\ cache[k].t < now'
       IN  /\ last'.op \in {"hit", "health"} => cache' = cache
           /\ (last'.op = "miss" \/ (last'.op = "failed" /\ last'.calls = 0)) =>
                 /\ SameBut(cache, cache', k)
                 /\ k \notin DOMAIN cache'
                 /\ k \in DOMAIN cache => expired
                 /\ last'.evicted <=> expired
           /\ (last'.op = "failed" /\ last'.calls = 1) => cache' = cache
           /\ last'.op = "stored" =>
                 /\ SameBut(cache, cache', k)
                 /\ cache'[k] = [v |-> last'.fetched,
                                 t |-> now' + RouteTtl(last'.route)]
           /\ last'.op \in {"none", "hit", "health", "miss", "failed", "stored"}]_vars

\* a request found the entry of its key expired and deleted it, its fetch
\* failed, and the key has no entry
C18_Witness ==
    /\ last.op = "failed"
    /\ last.evicted
    /\ last.key \notin DOMAIN cache

-----------------------------------------------------------------------------
(* A success response without a matches array, under SpecEmpty *)

\* { matches: [], count: 0, totalAvailable: 0 }
EmptyResult == [matches |-> <<>>, count |-> 0, totalAvailable |-> 0]

\* C19: when the upstream answers with success and a JSON body whose matches
\* is absent or not an array, fetchMatches returns {matches: [], count: 0,
\* totalAvailable: 0} without error, the route stores it with its full ttl
\* and answers 200, and later requests are served it from the cache with 200.
C19_EmptyBodyCached ==
    [][/\ \A q \in BagToSet(inflight), up \in EmptyBodyUpstreams :
             (Complete(q, up) /\ up.ok) =>
                /\ last'.op = "stored"
                /\ last'.fetched = EmptyResult
                /\ last'.status = 200
                /\ last'.body = [matches |-> <<>>, count |-> 0,
                                 totalAvailable |-> 0, cached |-> FALSE,
                                 fetchTime |-> now']
                /\ cache'[q.key] =
                      [v |-> EmptyResult,
                       t |-> now' + (IF q.route = "today" THEN 1800 ELSE 300)]
       /\ last'.op = "hit" =>
             /\ last'.status = 200
             /\ last'.body = [matches |-> <<>>, count |-> 0,
                              totalAvailable |-> 0, cached |-> TRUE,
                              cacheTime |-> now']
             /\ now' <= cache[last'.key].t]_vars

\* the empty result is served from the cache at the last instant of its ttl
C19_Witness ==
    /\ last.op = "hit"
    /\ last.body.totalAvailable = 0
    /\ last.body.matches = <<>>
    /\ now = cache[last.key].t

-----------------------------------------------------------------------------
(* Every request is answered, under SpecLive *)

\* the instants at which a request can arrive in SpecLive
IssueTimes ==
    {StartTime + s + FetchTimeout * k : s \in {0, 1}, k \in 0..MaxTicks}

\* a handler whose upstream call was issued at instant t waits
WaitsSince(t) == \E q \in BagToSet(inflight) : q.issuedAt = t

\* C17: every request to the two routes gets one response, with status 200
\* or 503: at once when it is served from the cache or fetchMatches returns
\* without an upstream call, and otherwise when its upstream call ends, which
\* it does at the latest when its 10 s timeout runs out, with a 503.
C17_EveryRequestAnswered ==
    /\ \A t \in IssueTimes : []<>~WaitsSince(t)
    /\ [][/\ last'.op \in {"hit", "stored", "failed"} =>
                last'.status \in {200, 503}
          /\ last'.op \in {"stored", "failed"} =>
                BagCardinality(inflight') = BagCardinality(inflight) - last'.calls
          /\ BagCardinality(inflight') < BagCardinality(inflight) =>
                /\ BagCardinality(inflight') = BagCardinality(inflight) - 1
                /\ last'.op \in {"stored", "failed"}
          /\ \A q \in BagToSet(inflight) :
                (Expire(q) /\ now' > now) =>
                    /\ now' = q.issuedAt + 10
                    /\ last'.status = 503
          /\ \A q \in BagToSet(inflight') :
                /\ q.issuedAt \in IssueTimes
                /\ now' <= q.issuedAt + 10]_vars

\* the upstream did not answer for 10 s and the request was answered 503
C17_Witness ==
    /\ last.op = "failed"
    /\ last.status = 503
    /\ last.fetched.error = "network timeout"
    /\ last.fetched.timestamp = now
    /\ now >= StartTime + FetchTimeout
    /\ ticks >= 1

-----------------------------------------------------------------------------
(* Shutdown, under SpecShutdown *)

Exited == proc.st = "exited"

\* C15 as stated: on every shutdown by a signal the cache is flushed exactly
\* once, before the process exits.
C15_FlushedOnEveryExit ==
    Exited => proc.flushes = 1

\* C15, amended: the cache is flushed at most once, and exactly when
\* server.close completes without error before a force timer fires: then it
\* is flushed once, in the close callback, and the process exits with code 0
\* with the cache empty, however many signals came.  When server.close
\* reports an error or a force timer fires first, the process exits with
\* code 1 and the cache is not flushed.
C15_FlushOnCleanClose ==
    /\ proc.flushes \in {0, 1}
    /\ proc.flushes = 1 <=> (Exited /\ proc.how = "closed")
    /\ Exited =>
          /\ proc.signals >= 1
          /\ proc.how \in {"closed", "closeError", "forced"}
          /\ proc.how = "closed" => (proc.code = 0 /\ cache = EmptyCache)
          /\ proc.how \in {"closeError", "forced"} =>
                (proc.code = 1 /\ proc.flushes = 0)

\* after two signals the last connection ended and the cache was flushed once
C15_Witness ==
    /\ Exited
    /\ proc.signals = 2
    /\ proc.how = "closed"
    /\ proc.flushes = 1
    /\ cache = EmptyCache

\* C20: after a signal the process exits, within 10 s: with code 0 and the
\* cache flushed if server.close completes without error, with code 1 if
\* server.close reports an error, and with code 1 when the force timer
\* fires, 10 s after the first signal, server.close not having completed.
C20_ExitsAfterSignal ==
    /\ [](proc.signals > 0 => <>Exited)
    /\ [](Exited =>
            /\ proc.signals > 0
            /\ now <= proc.since + 10
            /\ proc.how = "closed" =>
                  /\ proc.code = 0
                  /\ Head(proc.cbs) = "ok"
                  /\ proc.flushes = 1
                  /\ cache = EmptyCache
            /\ proc.how = "closeError" =>
                  /\ proc.code = 1
                  /\ Head(proc.cbs) = "err"
            /\ proc.how = "forced" =>
                  /\ proc.code = 1
                  /\ now = proc.since + 10
                  /\ proc.conns > 0)

\* a connection stayed open and the force timer ended the process
C20_Witness ==
    /\ Exited
    /\ proc.how = "forced"
    /\ proc.code = 1
    /\ proc.conns > 0
    /\ now = proc.since + ForceDelay

=============================================================================
